---- MODULE Spec2Model ----
(***************************************************************************)
(* Model of Socket_PC-main: a UDP sender that fragments files into chunks  *)
(* with an 8-byte header (functions.py) and a UDP receiver that            *)
(* reassembles them and evicts stale partial frames (functions_client.py). *)
(*                                                                         *)
(* Python integers are unbounded; TLC's are 32-bit signed.  A frame        *)
(* counter (0 .. 2^32 - 1) is therefore kept as a pair <<hi, lo>> of       *)
(* 16-bit halves, value = hi * 65536 + lo.                                 *)
(***************************************************************************)
EXTENDS Integers, Sequences, FiniteSets, TLC

\* ------------------------------------------------------------------ bounds
\* Largest total_chunks / chunk_idx the inbound datagrams carry.
MaxTotal == 2
\* Number of datagram_received calls in one behaviour.
MaxDatagrams == 3
\* The receiver's clock loop.time() runs over 0 .. MaxTime, in steps of
\* SweepPeriod seconds.
MaxTime == 2
\* frame_timeout, the constructor's parameter (5.0 in client.py), scaled.
FrameTimeout == 1

\* Most files in the watched folder.
MaxFiles == 2
\* Longest file, in bytes, of the enumerated folders.
MaxLen == 3
\* Largest chunk_size of the enumerated configurations.
MaxChunk == 2
\* The sender's clock time.time() runs over 0 .. MaxWall, in steps of
\* PollInterval seconds.
MaxWall == 2
\* clear_interval, a parameter of monitor_folder_and_send (120), scaled.
ClearInterval == 2

\* The largest TotalChunks of the datagrams of SpecWide, where two valid
\* headers of one frame id can disagree and still leave a PartialFrame.
MaxTotalWide == 3

\* --------------------------------------------------------- program constants
\* len(data) < 8: the header length.
HeaderLen == 8
\* await asyncio.sleep(1) of cleanup_loop.
SweepPeriod == 1
\* one 16-bit half of a frame counter: 2^16.
Half == 65536
\* poll_interval=1.0 of monitor_folder_and_send.
PollInterval == 1
\* chunk_size=8000, the default of send_file and monitor_folder_and_send.
DefaultChunkSize == 8000

\* -------------------------------------------------------------------- bytes
\* A chunk slot that holds no payload ([None] * total_chunks).
None == <<-1>>

RECURSIVE IntToBytes(_, _)
\* n.to_bytes(length, 'big', signed=False), for 0 <= n < 256^length.
IntToBytes(n, length) ==
    IF length = 0 THEN <<>>
    ELSE Append(IntToBytes(n \div 256, length - 1), n % 256)

RECURSIVE IntFromBytes(_)
\* int.from_bytes(bs, "big", signed=False), for at most 3 bytes.
IntFromBytes(bs) ==
    IF bs = <<>> THEN 0
    ELSE IntFromBytes(SubSeq(bs, 1, Len(bs) - 1)) * 256 + bs[Len(bs)]

\* frame_counter.to_bytes(4, 'big'): the two halves, high half first.
U32ToBytes(fc) == IntToBytes(fc[1], 2) \o IntToBytes(fc[2], 2)

\* int.from_bytes(data[0:4], "big"): the two halves of the 32-bit value.
U32FromBytes(bs) == <<IntFromBytes(SubSeq(bs, 1, 2)), IntFromBytes(SubSeq(bs, 3, 4))>>

\* The 32-bit value v < 2^31 as a pair of halves.
U32(v) == <<v \div Half, v % Half>>

RECURSIVE JoinTo(_, _)
\* The first n chunks, concatenated in index order.
JoinTo(chunks, n) ==
    IF n = 0 THEN <<>> ELSE JoinTo(chunks, n - 1) \o chunks[n]

\* b"".join(chunks)
Join(chunks) == JoinTo(chunks, Len(chunks))

\* ---------------------------------------------------------------- variables
VARIABLES
    reassembly_dict,  \* frame counter -> [total_chunks, chunks, received_count, last_update]
    now,              \* loop.time() of the receiver
    cleanup_sleeping, \* cleanup_loop is in its asyncio.sleep(1)
    cleanup_alive,    \* FALSE once cleanup_loop died of an exception
    save_tasks,       \* save_frame tasks created and not yet run, oldest first
    saved_files,      \* [frame_counter, data] of the files save_frame wrote
    handed,           \* per frame counter, the save_frame tasks created so far
    event,            \* what the last operation logged / did
    seen,             \* headers <<fc, total, idx>> of the valid datagrams received
    discarded,        \* frame counters cleanup_loop discarded so far
    ndatagrams,       \* datagram_received calls so far
    folder,           \* the .ply files of send_folder, in sorted order of path
    chunk_size,       \* chunk_size of monitor_folder_and_send
    sent_files,       \* monitor_folder_and_send: paths already passed to send_file
    frame_counter,    \* monitor_folder_and_send: the next frame counter
    wall,             \* time.time() of the sender
    last_clear_time,  \* monitor_folder_and_send: when sent_files was last cleared
    pc,               \* where the sender task stands
    slept,            \* the sender's poll sleep has ended
    ply_files,        \* the paths the for loop of line 97 has still to visit
    call,             \* the running send_file call: its arguments and locals
    wire,             \* every datagram handed to transport.sendto, in order
    sent_log,         \* [frame_counter, filepath] of each "Sending file" line logged
    passed,           \* the paths passed to send_file since sent_files was last cleared
    delivered         \* positions of wire that reached the receiver

rvars == <<reassembly_dict, now, cleanup_sleeping, cleanup_alive,
           save_tasks, saved_files, handed, event, seen,
           discarded, ndatagrams>>

svars == <<folder, chunk_size, sent_files, frame_counter, wall, last_clear_time,
           pc, slept, ply_files, call, wire, sent_log, passed>>

vars == <<rvars, svars, delivered>>

\* ----------------------------------------------------------------- receiver
\* The frame counters, payloads and datagrams the network delivers.
RecvIds == {U32(0), <<Half - 1, Half - 1>>}
Payloads == {<<65>>, <<66>>}

MakeDatagram(fc, total, idx, chunk_data) ==
    U32ToBytes(fc) \o IntToBytes(total, 2) \o IntToBytes(idx, 2) \o chunk_data

WellFormed ==
    {MakeDatagram(fc, total, idx, p) :
        fc \in RecvIds, total \in 0..MaxTotal, idx \in 0..MaxTotal, p \in Payloads}

\* Datagrams shorter than the header: empty, and a header cut by one byte.
Runts == {<<>>, SubSeq(MakeDatagram(U32(0), 1, 0, <<>>), 1, HeaderLen - 1)}

Datagrams == WellFormed \cup Runts

\* Lines 36-39: the parsed header and payload of a datagram of >= 8 bytes.
Parse(data) ==
    [frame_counter |-> U32FromBytes(SubSeq(data, 1, 4)),
     total_chunks  |-> IntFromBytes(SubSeq(data, 5, 6)),
     chunk_idx     |-> IntFromBytes(SubSeq(data, 7, 8)),
     chunk_data    |-> SubSeq(data, 9, Len(data))]

\* Line 28: the packet is too small to hold the header.
TooSmall(data) == Len(data) < HeaderLen

\* Line 41: the header is invalid.
InvalidHeader(total_chunks, chunk_idx) ==
    total_chunks <= 0 \/ chunk_idx >= total_chunks

\* Lines 49-54: a new entry.
NewFrameInfo(total_chunks, t) ==
    [total_chunks   |-> total_chunks,
     chunks         |-> [i \in 1..total_chunks |-> None],
     received_count |-> 0,
     last_update    |-> t]

\* Mutant of UpdateTotal: line 63 is left out, received_count is not reset.
UpdateTotalKeepCount(frame_info, total_chunks) ==
    IF frame_info.total_chunks # total_chunks
    THEN [frame_info EXCEPT !.total_chunks = total_chunks,
                            !.chunks = [i \in 1..total_chunks |-> None]]
    ELSE frame_info

\* Mutant of UpdateTotal: line 62 keeps the payloads already stored in the
\* slots that the new list still has.
UpdateTotalKeepSlots(frame_info, total_chunks) ==
    IF frame_info.total_chunks # total_chunks
    THEN [frame_info EXCEPT !.total_chunks = total_chunks,
                            !.chunks = [i \in 1..total_chunks |->
                                          IF i <= Len(frame_info.chunks)
                                          THEN frame_info.chunks[i] ELSE None],
                            !.received_count = 0]
    ELSE frame_info

\* Lines 59-63: total_chunks mismatch resets the entry.
UpdateTotal(frame_info, total_chunks) ==
    IF frame_info.total_chunks # total_chunks
    THEN [frame_info EXCEPT !.total_chunks = total_chunks,
                            !.chunks = [i \in 1..total_chunks |-> None],
                            !.received_count = 0]
    ELSE frame_info

\* Mutant of StoreChunk: the arriving payload is stored and counted whether or
\* not the slot is already filled.
StoreChunkAlways(frame_info, chunk_idx, chunk_data, t) ==
    [frame_info EXCEPT !.chunks[chunk_idx + 1] = chunk_data,
                       !.received_count = @ + 1,
                       !.last_update = t]

\* Mutant of StoreChunk: a chunk whose slot is filled refreshes last_update.
StoreChunkRefresh(frame_info, chunk_idx, chunk_data, t) ==
    IF frame_info.chunks[chunk_idx + 1] = None
    THEN [frame_info EXCEPT !.chunks[chunk_idx + 1] = chunk_data,
                            !.received_count = @ + 1,
                            !.last_update = t]
    ELSE [frame_info EXCEPT !.last_update = t]

\* Lines 66-69: save the chunk if not already present.
StoreChunk(frame_info, chunk_idx, chunk_data, t) ==
    IF frame_info.chunks[chunk_idx + 1] = None
    THEN [frame_info EXCEPT !.chunks[chunk_idx + 1] = chunk_data,
                            !.received_count = @ + 1,
                            !.last_update = t]
    ELSE frame_info

\* Mutant of IsComplete: off by one, complete with one chunk still missing.
IsCompleteEarly(frame_info) ==
    frame_info.received_count >= frame_info.total_chunks - 1

\* Line 72: the frame is complete.
IsComplete(frame_info) == frame_info.received_count = frame_info.total_chunks

\* Lines 48-56: the entry the call works on (created when absent).
Lookup(dict, fc, total_chunks, t) ==
    IF fc \notin DOMAIN dict THEN NewFrameInfo(total_chunks, t) ELSE dict[fc]

\* The entry after lines 48-69.
Ingested(dict, h, t) ==
    StoreChunk(UpdateTotal(Lookup(dict, h.frame_counter, h.total_chunks, t),
                           h.total_chunks),
               h.chunk_idx, h.chunk_data, t)

\* Mutant of Del: the entry is left in the table.
DelKeeps(dict, fc) == dict

\* Mutant of Del: the whole table is cleared.
DelClearsTable(dict, fc) == [k \in {} |-> dict[k]]

\* del self.reassembly_dict[fc]
Del(dict, fc) == [k \in DOMAIN dict \ {fc} |-> dict[k]]

\* Mutant of Put: the table is replaced by one holding this entry alone.
PutOnly(dict, fc, info) == [k \in {fc} |-> info]

\* self.reassembly_dict[fc] = info
Put(dict, fc, info) ==
    [k \in DOMAIN dict \cup {fc} |-> IF k = fc THEN info ELSE dict[k]]

\* What the call logs: the warning of line 29, 42 or 60, else what it did.
Outcome(dict, data, t) ==
    IF TooSmall(data) THEN "too_small"
    ELSE LET h == Parse(data) IN
         IF InvalidHeader(h.total_chunks, h.chunk_idx) THEN "invalid_header"
         ELSE IF IsComplete(Ingested(dict, h, t)) THEN "complete"
         ELSE IF h.frame_counter \notin DOMAIN dict THEN "created"
         ELSE IF dict[h.frame_counter].total_chunks # h.total_chunks THEN "mismatch"
         ELSE IF dict[h.frame_counter].chunks[h.chunk_idx + 1] = None THEN "stored"
         ELSE "duplicate"

\* Mutant of TableAfter: the entry is initialised before the header is
\* validated, so a datagram with an invalid header leaves a new entry behind.
TableAfterEarlyCreate(dict, data, t) ==
    IF TooSmall(data) THEN dict
    ELSE LET h == Parse(data) IN
         IF InvalidHeader(h.total_chunks, h.chunk_idx)
         THEN IF h.frame_counter \in DOMAIN dict THEN dict
              ELSE Put(dict, h.frame_counter, NewFrameInfo(h.total_chunks, t))
         ELSE LET frame_info == Ingested(dict, h, t) IN
              IF IsComplete(frame_info)
              THEN Del(dict, h.frame_counter)
              ELSE Put(dict, h.frame_counter, frame_info)

\* Mutant of TableAfter: line 77 is left out, a completed frame stays in the
\* table.
TableAfterKeepComplete(dict, data, t) ==
    IF TooSmall(data) THEN dict
    ELSE LET h == Parse(data) IN
         IF InvalidHeader(h.total_chunks, h.chunk_idx) THEN dict
         ELSE Put(dict, h.frame_counter, Ingested(dict, h, t))

\* The table when datagram_received(data) returns, lines 28-77: unchanged when
\* the datagram is rejected, else the entry is updated, or deleted once complete.
TableAfter(dict, data, t) ==
    IF TooSmall(data) THEN dict
    ELSE LET h == Parse(data) IN
         IF InvalidHeader(h.total_chunks, h.chunk_idx) THEN dict
         ELSE LET frame_info == Ingested(dict, h, t) IN
              IF IsComplete(frame_info)
              THEN Del(dict, h.frame_counter)
              ELSE Put(dict, h.frame_counter, frame_info)

\* Lines 72-75: the save_frame tasks the call creates (none or one).
TasksCreated(dict, data, t) ==
    IF TooSmall(data) THEN <<>>
    ELSE LET h == Parse(data) IN
         IF InvalidHeader(h.total_chunks, h.chunk_idx) THEN <<>>
         ELSE LET frame_info == Ingested(dict, h, t) IN
              IF IsComplete(frame_info)
              THEN <<[frame_counter |-> h.frame_counter,
                      data |-> Join(frame_info.chunks)]>>
              ELSE <<>>

\* The headers of the valid datagrams received so far, with this one.
SeenAfter(s, data) ==
    IF TooSmall(data) THEN s
    ELSE LET h == Parse(data) IN
         IF InvalidHeader(h.total_chunks, h.chunk_idx) THEN s
         ELSE s \cup {<<h.frame_counter, h.total_chunks, h.chunk_idx>>}

\* The number of save_frame tasks created so far for frame counter fc.
Handed(fc) == IF fc \in DOMAIN handed THEN handed[fc] ELSE 0

\* The hand-off counts with the tasks of one call added.
CountTasks(h, tasks) ==
    IF tasks = <<>> THEN h
    ELSE [fc \in DOMAIN h \cup {tasks[1].frame_counter} |->
            (IF fc \in DOMAIN h THEN h[fc] ELSE 0)
            + (IF fc = tasks[1].frame_counter THEN 1 ELSE 0)]

\* datagram_received(data, addr), lines 26-77.  The callback is synchronous:
\* it runs to its end before the event loop runs anything else.
DatagramReceived(data) ==
    /\ ndatagrams' = ndatagrams + 1
    /\ event' = Outcome(reassembly_dict, data, now)
    /\ reassembly_dict' = TableAfter(reassembly_dict, data, now)
    /\ save_tasks' = save_tasks \o TasksCreated(reassembly_dict, data, now)
    /\ handed' = CountTasks(handed, TasksCreated(reassembly_dict, data, now))
    /\ seen' = SeenAfter(seen, data)
    /\ UNCHANGED <<now, cleanup_sleeping, cleanup_alive, saved_files, discarded>>

\* Mutant of SaveFrame: a failed write puts the frame back into the table.
SaveFrameReingest(ok) ==
    /\ save_tasks # <<>>
    /\ saved_files' = IF ok THEN saved_files \cup {Head(save_tasks)} ELSE saved_files
    /\ save_tasks' = Tail(save_tasks)
    /\ reassembly_dict' =
          IF ok THEN reassembly_dict
          ELSE Put(reassembly_dict, Head(save_tasks).frame_counter,
                   [total_chunks   |-> 1,
                    chunks         |-> <<Head(save_tasks).data>>,
                    received_count |-> 1,
                    last_update    |-> now])
    /\ UNCHANGED <<now, cleanup_sleeping, cleanup_alive, handed, event,
                   seen, discarded, ndatagrams>>

\* save_frame(frame_counter, data), lines 79-88: the oldest task runs; the
\* write succeeds, or raises and is only logged.
SaveFrame(ok) ==
    /\ save_tasks # <<>>
    /\ saved_files' = IF ok THEN saved_files \cup {Head(save_tasks)} ELSE saved_files
    /\ save_tasks' = Tail(save_tasks)
    /\ UNCHANGED <<reassembly_dict, now, cleanup_sleeping, cleanup_alive, handed, event,
                   seen, discarded, ndatagrams>>

\* Mutant of TimedOut: the subtraction is the wrong way round.
TimedOutReversed(info, t) == info.last_update - t > FrameTimeout

\* Mutant of TimedOut: >= in place of >.
TimedOutAtLimit(info, t) == t - info.last_update >= FrameTimeout

\* Line 96: the entry has timed out.
TimedOut(info, t) == t - info.last_update > FrameTimeout

\* Lines 94-98: the frame counters collected for removal.
Scan(dict, t) == {fc \in DOMAIN dict : TimedOut(dict[fc], t)}

RECURSIVE DelAll(_, _)
\* Lines 99-100: delete each collected key (defined when all are present).
DelAll(dict, keys) ==
    IF keys = {} THEN dict
    ELSE LET fc == CHOOSE k \in keys : TRUE
         IN DelAll(Del(dict, fc), keys \ {fc})

\* One iteration of cleanup_loop, lines 93-101: scan, remove, sleep.  There is
\* no await between the scan and the removal, so the event loop runs nothing
\* else in between.  A key that is no longer in the table makes del raise
\* KeyError, which ends the task.
CleanupTick ==
    /\ cleanup_alive
    /\ ~cleanup_sleeping
    /\ LET keys == Scan(reassembly_dict, now) IN
       /\ IF keys \subseteq DOMAIN reassembly_dict
          THEN /\ reassembly_dict' = DelAll(reassembly_dict, keys)
               /\ cleanup_alive' = TRUE
               /\ cleanup_sleeping' = TRUE
          ELSE /\ reassembly_dict' =
                      DelAll(reassembly_dict, keys \cap DOMAIN reassembly_dict)
               /\ cleanup_alive' = FALSE
               /\ cleanup_sleeping' = FALSE
       /\ discarded' = discarded \cup keys
    /\ event' = "sweep"
    /\ UNCHANGED <<now, save_tasks, saved_files, handed, seen, ndatagrams>>
    /\ UNCHANGED <<svars, delivered>>

\* The receiver's clock advances by one sweep period, which ends the sleep of
\* cleanup_loop.
AdvanceTime ==
    /\ now < MaxTime
    /\ now' = now + SweepPeriod
    /\ cleanup_sleeping' = FALSE
    /\ UNCHANGED <<reassembly_dict, cleanup_alive, event,
                   save_tasks, saved_files, handed, seen, discarded, ndatagrams>>
    /\ UNCHANGED <<svars, delivered>>

\* ------------------------------------------------------------------- sender
\* A file's bytes are a ramp: byte i (from 0) of a file with seed k is
\* (k + i) mod 256.  file_data is kept as [size, seed]; only the slices that
\* are sent are built.
ByteAt(seed, i) == (seed + i) % 256

\* file_data[start:end]
Slice(file, start, end) ==
    [k \in 1..(end - start) |-> ByteAt(file.seed, start + k - 1)]

\* All the bytes of a file.
FileBytes(file) == Slice(file, 0, file.size)

\* Mutant of NextFrameCounter: the modulo is left out.
NextFrameCounterNoWrap(fc) ==
    IF fc[2] + 1 < Half THEN <<fc[1], fc[2] + 1>> ELSE <<fc[1] + 1, 0>>

\* Line 66: (frame_counter + 1) % (2**32), on the two halves: the carry out
\* of the high half is what the modulo drops.
NextFrameCounter(fc) ==
    IF fc[2] + 1 < Half THEN <<fc[1], fc[2] + 1>>
    ELSE <<(fc[1] + 1) % Half, 0>>

\* Mutant of TotalChunks: floor instead of ceil.
TotalChunksFloor(frame_size, csize) == frame_size \div csize

\* Line 52: math.ceil(frame_size / chunk_size)
TotalChunks(frame_size, csize) == (frame_size + csize - 1) \div csize

\* Line 53: total_chunks.to_bytes(2, 'big') raises OverflowError.
Overflows16(n) == n >= Half

\* Lines 57-61: the datagram of chunk chunk_idx.
ChunkPayload(fc, total_chunks, chunk_idx, file, csize) ==
    LET start == chunk_idx * csize
        end   == IF start + csize < file.size THEN start + csize ELSE file.size
    IN U32ToBytes(fc) \o IntToBytes(total_chunks, 2) \o IntToBytes(chunk_idx, 2)
       \o Slice(file, start, end)

\* No send_file call is running.
NoCall == [filepath |-> 0, frame_counter |-> <<0, 0>>, total_chunks |-> 0,
           chunk_idx |-> 0, first |-> 0]

\* Lines 90-96: the top of the loop of monitor_folder_and_send: clear the
\* cache when clear_interval has passed, then list the folder.
MonitorPoll ==
    /\ pc = "poll"
    /\ IF wall - last_clear_time >= ClearInterval
       THEN sent_files' = {} /\ last_clear_time' = wall /\ passed' = <<>>
       ELSE UNCHANGED <<sent_files, last_clear_time, passed>>
    /\ ply_files' = [i \in 1..Len(folder) |-> i]
    /\ pc' = "scan"
    /\ UNCHANGED <<folder, chunk_size, frame_counter, wall, slept, call, wire, sent_log>>
    /\ UNCHANGED <<rvars, delivered>>

\* Lines 97-98: a file that is in sent_files is passed over.
MonitorSkip ==
    /\ pc = "scan"
    /\ ply_files # <<>>
    /\ ply_files[1] \in sent_files
    /\ ply_files' = SubSeq(ply_files, 2, Len(ply_files))
    /\ UNCHANGED <<folder, chunk_size, sent_files, frame_counter, wall,
                   last_clear_time, pc, slept, call, wire, sent_log>>
    /\ UNCHANGED passed
    /\ UNCHANGED <<rvars, delivered>>

\* Lines 98-100: a new file is passed to send_file with the frame counter.
MonitorCall ==
    /\ pc = "scan"
    /\ ply_files # <<>>
    /\ ply_files[1] \notin sent_files
    /\ call' = [filepath |-> ply_files[1], frame_counter |-> frame_counter,
                total_chunks |-> 0, chunk_idx |-> 0, first |-> Len(wire)]
    /\ passed' = Append(passed, ply_files[1])
    /\ pc' = "read"
    /\ UNCHANGED <<folder, chunk_size, sent_files, frame_counter, wall,
                   last_clear_time, slept, ply_files, wire, sent_log>>
    /\ UNCHANGED <<rvars, delivered>>

\* Line 102: the for loop is over; the task sleeps poll_interval.
MonitorLoopEnd ==
    /\ pc = "scan"
    /\ ply_files = <<>>
    /\ pc' = "sleep"
    /\ slept' = FALSE
    /\ UNCHANGED <<folder, chunk_size, sent_files, frame_counter, wall,
                   last_clear_time, ply_files, call, wire, sent_log>>
    /\ UNCHANGED passed
    /\ UNCHANGED <<rvars, delivered>>

\* Line 102 returns: the next iteration of the while loop.
MonitorWake ==
    /\ pc = "sleep"
    /\ slept
    /\ pc' = "poll"
    /\ UNCHANGED <<folder, chunk_size, sent_files, frame_counter, wall,
                   last_clear_time, slept, ply_files, call, wire, sent_log>>
    /\ UNCHANGED passed
    /\ UNCHANGED <<rvars, delivered>>

\* Mutant of SendFileRead: a path whose read failed is not added to
\* sent_files.
SendFileReadForgets ==
    /\ pc = "read"
    /\ LET file == folder[call.filepath] IN
       IF ~file.readable
       THEN /\ frame_counter' = call.frame_counter
            /\ sent_files' = sent_files
            /\ ply_files' = SubSeq(ply_files, 2, Len(ply_files))
            /\ call' = NoCall
            /\ pc' = "scan"
            /\ sent_log' = sent_log
       ELSE /\ sent_log' = Append(sent_log, [frame_counter |-> call.frame_counter,
                                             filepath |-> call.filepath])
            /\ UNCHANGED <<frame_counter, sent_files, ply_files>>
            /\ IF Overflows16(TotalChunks(file.size, chunk_size))
               THEN pc' = "dead" /\ call' = call
               ELSE /\ pc' = "chunks"
                    /\ call' = [call EXCEPT
                                  !.total_chunks = TotalChunks(file.size, chunk_size)]
    /\ UNCHANGED <<folder, chunk_size, wall, last_clear_time, slept, wire>>
    /\ UNCHANGED passed
    /\ UNCHANGED <<rvars, delivered>>

\* send_file, lines 41-54.  A file that cannot be read returns the frame
\* counter as given (line 46), and the caller adds the path to sent_files
\* (lines 100-101).  A total_chunks that does not fit 2 bytes raises
\* OverflowError at line 53, which nothing catches: the task ends.
SendFileRead ==
    /\ pc = "read"
    /\ LET file == folder[call.filepath] IN
       IF ~file.readable
       THEN /\ frame_counter' = call.frame_counter
            /\ sent_files' = sent_files \cup {call.filepath}
            /\ ply_files' = SubSeq(ply_files, 2, Len(ply_files))
            /\ call' = NoCall
            /\ pc' = "scan"
            /\ sent_log' = sent_log
       ELSE /\ sent_log' = Append(sent_log, [frame_counter |-> call.frame_counter,
                                             filepath |-> call.filepath])
            /\ UNCHANGED <<frame_counter, sent_files, ply_files>>
            /\ IF Overflows16(TotalChunks(file.size, chunk_size))
               THEN pc' = "dead" /\ call' = call
               ELSE /\ pc' = "chunks"
                    /\ call' = [call EXCEPT
                                  !.total_chunks = TotalChunks(file.size, chunk_size)]
    /\ UNCHANGED <<folder, chunk_size, wall, last_clear_time, slept, wire>>
    /\ UNCHANGED passed
    /\ UNCHANGED <<rvars, delivered>>

\* send_file, lines 56-63: one iteration of the chunk loop.
SendChunk ==
    /\ pc = "chunks"
    /\ call.chunk_idx < call.total_chunks
    /\ wire' = Append(wire, ChunkPayload(call.frame_counter, call.total_chunks,
                                         call.chunk_idx, folder[call.filepath],
                                         chunk_size))
    /\ call' = [call EXCEPT !.chunk_idx = @ + 1]
    /\ UNCHANGED <<folder, chunk_size, sent_files, frame_counter, wall,
                   last_clear_time, pc, slept, ply_files, sent_log>>
    /\ UNCHANGED passed
    /\ UNCHANGED <<rvars, delivered>>

\* send_file, lines 65-66, and the caller's lines 100-101: the loop is over,
\* the incremented counter is returned and stored, the path is remembered.
SendFileReturn ==
    /\ pc = "chunks"
    /\ call.chunk_idx >= call.total_chunks
    /\ frame_counter' = NextFrameCounter(call.frame_counter)
    /\ sent_files' = sent_files \cup {call.filepath}
    /\ ply_files' = SubSeq(ply_files, 2, Len(ply_files))
    /\ call' = NoCall
    /\ pc' = "scan"
    /\ UNCHANGED <<folder, chunk_size, wall, last_clear_time, slept, wire, sent_log>>
    /\ UNCHANGED passed
    /\ UNCHANGED <<rvars, delivered>>

\* The sender's clock advances by one poll interval, which ends a poll sleep.
AdvanceWall ==
    /\ wall < MaxWall
    /\ wall' = wall + PollInterval
    /\ slept' = (pc = "sleep")
    /\ UNCHANGED <<folder, chunk_size, sent_files, frame_counter, last_clear_time,
                   pc, ply_files, call, wire, sent_log>>
    /\ UNCHANGED passed
    /\ UNCHANGED <<rvars, delivered>>

\* The files a folder may hold: unreadable, or readable with 0 .. MaxLen bytes.
Files ==
    {[readable |-> FALSE, size |-> 0, seed |-> 0]}
    \cup {[readable |-> TRUE, size |-> n, seed |-> k] : n \in 0..MaxLen, k \in {65}}

RECURSIVE Folders(_)
\* The folders of n files.
Folders(n) ==
    IF n = 0 THEN {<<>>}
    ELSE {Append(f, x) : f \in Folders(n - 1), x \in Files}

\* The enumerated configurations: a folder and a chunk_size.
SmallConfigs ==
    {[folder |-> f, chunk_size |-> c] :
        f \in UNION {Folders(n) : n \in 0..MaxFiles}, c \in 1..MaxChunk}

\* A file of 20,000 bytes sent with the default chunk_size, and a file that
\* needs 65,536 chunks of one byte.
LargeConfigs ==
    {[folder |-> <<[readable |-> TRUE, size |-> 20000, seed |-> 0]>>,
      chunk_size |-> DefaultChunkSize],
     [folder |-> <<[readable |-> TRUE, size |-> Half, seed |-> 0],
                   [readable |-> TRUE, size |-> 1, seed |-> 65]>>,
      chunk_size |-> 1]}

\* monitor_folder_and_send, lines 84-87, started on a configuration with the
\* frame counter at fc.
InitSender(cfg, fc) ==
    /\ folder = cfg.folder
    /\ chunk_size = cfg.chunk_size
    /\ sent_files = {}
    /\ frame_counter = fc
    /\ wall = 0
    /\ last_clear_time = 0
    /\ pc = "poll"
    /\ slept = FALSE
    /\ ply_files = <<>>
    /\ call = NoCall
    /\ wire = <<>>
    /\ sent_log = <<>>
    /\ passed = <<>>

\* __init__, lines 20-24: an empty table; cleanup_loop is scheduled at once.
InitReceiver ==
    /\ reassembly_dict = <<>>
    /\ now = 0
    /\ cleanup_sleeping = FALSE
    /\ cleanup_alive = TRUE
    /\ save_tasks = <<>>
    /\ saved_files = {}
    /\ handed = <<>>
    /\ event = "init"
    /\ seen = {}
    /\ discarded = {}
    /\ ndatagrams = 0

\* The network delivers any datagram, at most MaxDatagrams of them.
Receive ==
    /\ ndatagrams < MaxDatagrams
    /\ \E data \in Datagrams : DatagramReceived(data)
    /\ UNCHANGED <<svars, delivered>>

Save ==
    /\ \E ok \in BOOLEAN : SaveFrame(ok)
    /\ UNCHANGED <<svars, delivered>>

\* The receiver alone, fed by the network; no sender runs.
Init ==
    /\ InitReceiver
    /\ InitSender([folder |-> <<>>, chunk_size |-> DefaultChunkSize], U32(0))
    /\ delivered = {}

Next == Receive \/ Save \/ CleanupTick \/ AdvanceTime

Spec == Init /\ [][Next]_vars

\* The sender alone: monitor_folder_and_send from its start (frame counter 0).
InitSend ==
    /\ InitReceiver
    /\ \E cfg \in SmallConfigs \cup LargeConfigs : InitSender(cfg, U32(0))
    /\ delivered = {}

NextSend ==
    \/ MonitorPoll \/ MonitorSkip \/ MonitorCall \/ MonitorLoopEnd \/ MonitorWake
    \/ SendFileRead \/ SendChunk \/ SendFileReturn \/ AdvanceWall

SpecSend == InitSend /\ [][NextSend]_vars

\* The frame counters the sender is started from: 0, 7, 2^32 - 2, 2^32 - 1.
StartIds == {U32(0), U32(7), <<Half - 1, Half - 2>>, <<Half - 1, Half - 1>>}

\* The sender after any number of frames: the loop of
\* monitor_folder_and_send with the frame counter at one of StartIds.
InitSendFrom ==
    /\ InitReceiver
    /\ \E cfg \in SmallConfigs \cup LargeConfigs, fc \in StartIds : InitSender(cfg, fc)
    /\ delivered = {}

SpecSendFrom == InitSendFrom /\ [][NextSend]_vars

\* Fairness of the receiver: the event loop runs cleanup_loop once its sleep
\* has ended, and the clock advances.
SpecLive == Init /\ [][Next]_vars /\ WF_vars(CleanupTick) /\ WF_vars(AdvanceTime)

\* The datagrams of one frame id with TotalChunks and ChunkIndex up to
\* MaxTotalWide, the payload empty or not, and the runts.
WidePayloads == {<<>>, <<65>>}

WideDatagrams ==
    {MakeDatagram(U32(0), total, idx, p) :
        total \in 0..MaxTotalWide, idx \in 0..MaxTotalWide, p \in WidePayloads}
    \cup Runts

\* The network delivers one of WideDatagrams to datagram_received.
ReceiveWide ==
    /\ ndatagrams < MaxDatagrams
    /\ \E data \in WideDatagrams : DatagramReceived(data)
    /\ UNCHANGED <<svars, delivered>>

NextWide == ReceiveWide \/ CleanupTick \/ AdvanceTime

\* The receiver fed with the datagrams of one frame id.
SpecWide == Init /\ [][NextWide]_vars

\* A datagram that was sent and has not been delivered reaches
\* datagram_received; each datagram is delivered at most once, in any order.
Deliver ==
    \E i \in (1..Len(wire)) \ delivered :
        /\ DatagramReceived(wire[i])
        /\ delivered' = delivered \cup {i}
        /\ UNCHANGED svars

\* Sender and receiver joined by a network that loses nothing and repeats
\* nothing: one pass of monitor_folder_and_send over the folder, no sweep.
InitRT ==
    /\ InitReceiver
    /\ \E cfg \in SmallConfigs : InitSender(cfg, U32(0))
    /\ delivered = {}

NextRT ==
    \/ MonitorPoll \/ MonitorCall \/ MonitorLoopEnd
    \/ SendFileRead \/ SendChunk \/ SendFileReturn
    \/ Deliver

SpecRT == InitRT /\ [][NextRT]_vars

\* ------------------------------------------------- what the claims speak of
\* A datagram that carries a header the receiver must accept.
Accepted(data) ==
    /\ Len(data) >= 8
    /\ Parse(data).total_chunks # 0
    /\ Parse(data).chunk_idx < Parse(data).total_chunks

\* <<FrameID, TotalChunks, ChunkIndex>> of a datagram.
Header(data) ==
    <<Parse(data).frame_counter, Parse(data).total_chunks, Parse(data).chunk_idx>>

\* The indices of frame fc, of n chunks, that its PartialFrame still lacks.
Missing(fc, n) ==
    IF fc \in DOMAIN reassembly_dict /\ reassembly_dict[fc].total_chunks = n
    THEN {i \in 0..(n - 1) : reassembly_dict[fc].chunks[i + 1] = None}
    ELSE 0..(n - 1)

\* receivedCount of frame fc in a table (0 when it has no PartialFrame).
ReceivedCount(dict, fc) ==
    IF fc \in DOMAIN dict THEN dict[fc].received_count ELSE 0

\* The PartialFrame of fc has had no new chunk for longer than frameTimeout.
Stale(fc) ==
    /\ fc \in DOMAIN reassembly_dict
    /\ now - reassembly_dict[fc].last_update > FrameTimeout

\* The table and the save_frame tasks when datagram_received(d) returns.
After(d) == TableAfter(reassembly_dict, d, now)
Created(d) == TasksCreated(reassembly_dict, d, now)

\* The step is a datagram_received call that fills an empty slot of frame fc.
NewChunkStep(fc) ==
    \E d \in Datagrams :
        /\ DatagramReceived(d)
        /\ Accepted(d)
        /\ Parse(d).frame_counter = fc
        /\ Parse(d).chunk_idx \in Missing(fc, Parse(d).total_chunks)

\* g = (f + 1) mod 2^32, on the 16-bit halves of f and g.
Succ32(f, g) ==
    /\ g[2] = (f[2] + 1) % Half
    /\ g[1] = (f[1] + (f[2] + 1) \div Half) % Half

\* The largest frame id, 2^32 - 1.
MaxId == <<Half - 1, Half - 1>>

\* The step is a return of send_file to monitor_folder_and_send.
SendFileReturns == pc \in {"read", "chunks"} /\ pc' = "scan"

\* The step ends a send_file call that had read its data: it returns, or it
\* raises.
SendFileEnds ==
    /\ pc \in {"read", "chunks"}
    /\ pc' \notin {"read", "chunks"}
    /\ folder[call.filepath].readable

\* The datagrams the call that ends in this step has emitted, in order.
Emitted == SubSeq(wire', call.first + 1, Len(wire'))

\* n = ceil(L / C)
IsCeil(n, L, C) == n * C >= L /\ (n - 1) * C < L

\* d is chunk i (from 0) of n of the frame f made of the bytes of file, cut
\* at C bytes: FrameID(4) | TotalChunks(2) | ChunkIndex(2), big-endian, then
\* data[i*C : min((i+1)*C, L)].
IsChunk(d, f, n, i, file, C) ==
    LET start == i * C
        end   == IF (i + 1) * C < file.size THEN (i + 1) * C ELSE file.size
    IN /\ Len(d) = HeaderLen + (end - start)
       /\ \A k \in 1..HeaderLen : d[k] \in 0..255
       /\ d[1] * 256 + d[2] = f[1]
       /\ d[3] * 256 + d[4] = f[2]
       /\ d[5] * 256 + d[6] = n
       /\ d[7] * 256 + d[8] = i
       /\ \A k \in 1..(end - start) : d[HeaderLen + k] = ByteAt(file.seed, start + k - 1)
       /\ n > 0 /\ 0 <= i /\ i < n
       /\ ~TooSmall(d)
       /\ ~InvalidHeader(Parse(d).total_chunks, Parse(d).chunk_idx)

\* The call that ends in this step has emitted the ceil(L / C) chunks of its
\* data, in index order.
Fragmented ==
    /\ IsCeil(Len(Emitted), folder[call.filepath].size, chunk_size)
    /\ \A i \in 1..Len(Emitted) :
           IsChunk(Emitted[i], call.frame_counter, Len(Emitted), i - 1,
                   folder[call.filepath], chunk_size)

\* The worked example: 20,000 bytes, chunkSize 8000, FrameID 7.
ExampleCall ==
    /\ folder[call.filepath].size = 20000
    /\ chunk_size = 8000
    /\ call.frame_counter = U32(7)

ExampleEmitted ==
    /\ Len(Emitted) = 3
    /\ Len(Emitted[1]) = HeaderLen + 8000
    /\ Len(Emitted[2]) = HeaderLen + 8000
    /\ Len(Emitted[3]) = HeaderLen + 4000
    /\ SubSeq(Emitted[2], 1, HeaderLen) = <<0, 0, 0, 7, 0, 3, 0, 1>>

RECURSIVE WireIds(_)
\* The frame ids carried by the first n datagrams sent, in the order of
\* their first appearance.
WireIds(n) ==
    IF n = 0 THEN <<>>
    ELSE LET ids == WireIds(n - 1)
             f   == Parse(wire[n]).frame_counter
         IN IF \E i \in 1..Len(ids) : ids[i] = f THEN ids ELSE Append(ids, f)

\* ------------------------------------------------------------------- claims
\* C1: round trip.  Once send_file has run for every file of the folder and
\* every datagram it emitted has been delivered exactly once, in any order and
\* with no eviction, each frame that send_file sent (data of any length, the
\* empty one included) has been handed to save_frame exactly once, with the
\* same frame id and the bytes of the file.
C1_RoundTrip ==
    (pc = "sleep" /\ delivered = 1..Len(wire)) =>
        \A k \in 1..Len(sent_log) :
            /\ Handed(sent_log[k].frame_counter) = 1
            /\ \E i \in 1..Len(save_tasks) :
                   save_tasks[i] = [frame_counter |-> sent_log[k].frame_counter,
                                    data |-> FileBytes(folder[sent_log[k].filepath])]

\* C2 as stated: re-delivering a chunk that was delivered before (same
\* FrameID, TotalChunks, ChunkIndex) never changes receivedCount of that
\* FrameID and never causes another hand-off to save_frame, at any moment.
C2_ReplayNeverChanges ==
    \A d \in Datagrams :
        (Accepted(d) /\ Header(d) \in seen)
        => /\ ReceivedCount(After(d), Parse(d).frame_counter)
                = ReceivedCount(reassembly_dict, Parse(d).frame_counter)
           /\ Created(d) = <<>>

\* C2 amended: re-delivering a chunk while the PartialFrame that stored it is
\* still in the table (same TotalChunks, slot still filled) changes neither
\* receivedCount nor the stored payloads and causes no hand-off to save_frame.
C2_DuplicateIgnored ==
    \A d \in Datagrams :
        (/\ Accepted(d)
         /\ Parse(d).frame_counter \in DOMAIN reassembly_dict
         /\ Parse(d).chunk_idx \notin
                Missing(Parse(d).frame_counter, Parse(d).total_chunks))
        => /\ Header(d) \in seen
           /\ Parse(d).frame_counter \in DOMAIN After(d)
           /\ After(d)[Parse(d).frame_counter].received_count
                = reassembly_dict[Parse(d).frame_counter].received_count
           /\ After(d)[Parse(d).frame_counter].chunks
                = reassembly_dict[Parse(d).frame_counter].chunks
           /\ Created(d) = <<>>

\* C2 witness: a duplicate of a stored chunk has just been received.
C2_Witness ==
    /\ event = "duplicate"
    /\ reassembly_dict # <<>>

\* The TotalChunks values seen so far in accepted datagrams of frame fc.
TotalsSeen(fc) == {h[2] : h \in {x \in seen : x[1] = fc}}

\* C3 as stated: a frame whose chunks all carry TotalChunks = n and that was
\* never evicted is handed to save_frame exactly once, whatever duplicates
\* arrive: never twice, and once when all n indices have arrived.
C3_ExactlyOnce ==
    \A fc \in RecvIds :
        (Cardinality(TotalsSeen(fc)) = 1 /\ fc \notin discarded)
        => /\ Handed(fc) <= 1
           /\ (\A n \in TotalsSeen(fc) :
                 (\A i \in 0..(n - 1) : <<fc, n, i>> \in seen) => Handed(fc) = 1)

\* The bytes of frame fc, of n chunks, once payload p fills index idx.
Completed(fc, n, idx, p) ==
    Join([i \in 1..n |->
            IF i = idx + 1 THEN p
            ELSE IF fc \in DOMAIN reassembly_dict /\ i <= Len(reassembly_dict[fc].chunks)
                 THEN reassembly_dict[fc].chunks[i] ELSE None])

\* C3 amended: a frame is handed to save_frame in exactly those
\* datagram_received calls that fill the last still-empty index of its
\* PartialFrame (never earlier, never in another call, never by another
\* operation), with its slots joined in index order and its entry removed; a
\* chunk re-delivered after the hand-off starts a new PartialFrame, which is
\* handed off again when its last index is filled.
C3_CompletionTiming ==
    /\ [](\A d \in Datagrams :
            IF Accepted(d)
               /\ Missing(Parse(d).frame_counter, Parse(d).total_chunks)
                    = {Parse(d).chunk_idx}
            THEN /\ Created(d) =
                      <<[frame_counter |-> Parse(d).frame_counter,
                         data |-> Completed(Parse(d).frame_counter,
                                            Parse(d).total_chunks,
                                            Parse(d).chunk_idx,
                                            Parse(d).chunk_data)]>>
                 /\ Parse(d).frame_counter \notin DOMAIN After(d)
            ELSE Created(d) = <<>>)
    /\ [][(handed' # handed \/ Len(save_tasks') > Len(save_tasks))
            => /\ ndatagrams' = ndatagrams + 1
               /\ event' = "complete"
               /\ \E fc \in RecvIds :
                     /\ Handed(fc)' = Handed(fc) + 1
                     /\ \A other \in RecvIds \ {fc} : Handed(other)' = Handed(other)
                     /\ save_tasks' # <<>>
                     /\ save_tasks'[Len(save_tasks')].frame_counter = fc
                     /\ Len(save_tasks') = Len(save_tasks) + 1]_vars

\* C3 witness: a frame of MaxTotal chunks has completed after a duplicate of
\* one of its chunks had been received, and was handed off once.
C3_Witness ==
    \E fc \in RecvIds :
        /\ event = "complete"
        /\ ndatagrams > MaxTotal
        /\ seen = {<<fc, MaxTotal, i>> : i \in 0..(MaxTotal - 1)}
        /\ Handed(fc) = 1
        /\ save_tasks # <<>>
        /\ Len(save_tasks[Len(save_tasks)].data) = MaxTotal

\* C4: a sweep tick removes every PartialFrame idle for longer than
\* frameTimeout, without handing it to save_frame; a stale PartialFrame leaves
\* the table only by such a sweep or by a new chunk; and under fairness of the
\* sweep and of the clock every stale PartialFrame is eventually removed by
\* the sweep unless a new chunk arrives for it.
C4_Eviction ==
    /\ [][CleanupTick =>
            /\ \A fc \in DOMAIN reassembly_dict :
                  Stale(fc) => (fc \notin DOMAIN reassembly_dict' /\ fc \in discarded')
            /\ handed' = handed
            /\ save_tasks' = save_tasks]_vars
    /\ [][\A fc \in RecvIds :
            (Stale(fc) /\ ~Stale(fc)')
            => \/ /\ fc \notin DOMAIN reassembly_dict'
                  /\ fc \in discarded'
                  /\ handed' = handed
                  /\ save_tasks' = save_tasks
               \/ NewChunkStep(fc)]_vars
    /\ \A fc \in RecvIds : Stale(fc) ~> ~Stale(fc)

\* C4 witness: a PartialFrame was discarded by the sweep and never handed off.
C4_Witness ==
    \E fc \in RecvIds :
        /\ event = "sweep"
        /\ fc \in discarded
        /\ fc \notin DOMAIN reassembly_dict
        /\ Handed(fc) = 0
        /\ \E h \in seen : h[1] = fc

\* C5: a datagram shorter than 8 bytes, or with TotalChunks = 0, or with
\* ChunkIndex >= TotalChunks, leaves the whole reassembly table unchanged and
\* hands no frame to save_frame.
C5_Rejection ==
    \A d \in Datagrams :
        ~Accepted(d) => (After(d) = reassembly_dict /\ Created(d) = <<>>)

\* C5 witness: a datagram has just been rejected while the table held an entry.
C5_Witness ==
    /\ event \in {"too_small", "invalid_header"}
    /\ reassembly_dict # <<>>

\* C6: ingestion and sweep are atomic steps on the shared table.  An ingested
\* new chunk is in the table or in the frame handed off, and the call touches
\* no other entry; no step loses a stored slot of a PartialFrame that stays in
\* the table; no step both hands a frame off and evicts one; a hand-off removes
\* only the completed frame; a sweep leaves the entries it keeps as they were;
\* and the sweep never deletes a key that is not in the table.
C6_Serialized ==
    /\ [](\A d \in Datagrams :
            (Accepted(d)
             /\ Parse(d).chunk_idx
                    \in Missing(Parse(d).frame_counter, Parse(d).total_chunks))
            => /\ \/ /\ Parse(d).frame_counter \in DOMAIN After(d)
                     /\ After(d)[Parse(d).frame_counter]
                            .chunks[Parse(d).chunk_idx + 1] = Parse(d).chunk_data
                  \/ /\ Len(Created(d)) = 1
                     /\ Parse(d).frame_counter \notin DOMAIN After(d)
               /\ DOMAIN After(d) \ {Parse(d).frame_counter}
                    = DOMAIN reassembly_dict \ {Parse(d).frame_counter}
               /\ \A fc \in DOMAIN reassembly_dict \ {Parse(d).frame_counter} :
                     After(d)[fc] = reassembly_dict[fc])
    /\ [][/\ \A fc \in DOMAIN reassembly_dict \cap DOMAIN reassembly_dict' :
               reassembly_dict'[fc].total_chunks = reassembly_dict[fc].total_chunks
               => \A i \in 1..reassembly_dict[fc].total_chunks :
                     reassembly_dict[fc].chunks[i] # None
                     => reassembly_dict'[fc].chunks[i] = reassembly_dict[fc].chunks[i]
          /\ (handed' # handed => discarded' = discarded)
          /\ (handed' # handed =>
                \A fc \in DOMAIN reassembly_dict \ DOMAIN reassembly_dict' :
                    Handed(fc)' = Handed(fc) + 1)
          /\ (CleanupTick =>
                /\ handed' = handed
                /\ save_tasks' = save_tasks
                /\ \A fc \in DOMAIN reassembly_dict' :
                      /\ fc \in DOMAIN reassembly_dict
                      /\ reassembly_dict'[fc] = reassembly_dict[fc])
          /\ \A fc \in DOMAIN reassembly_dict \ DOMAIN reassembly_dict' :
                fc \in discarded' \/ Handed(fc)' = Handed(fc) + 1]_vars
    /\ [](cleanup_alive)

\* C6 witness: both frame counters were ingested, one was evicted by a sweep
\* while the other stayed in the table, and a frame was completed.
C6_Witness ==
    /\ discarded # {}
    /\ \E fc \in RecvIds \ discarded : fc \in DOMAIN reassembly_dict
    /\ \E fc \in RecvIds : Handed(fc) > 0
    /\ cleanup_alive

\* C7: when send_file returns after emitting all chunks of a frame sent with
\* id f, the frame counter becomes (f + 1) mod 2^32, which is 0 for
\* f = 2^32 - 1; and the frame counter always stays within 0 .. 2^32 - 1.
C7_FrameCounter ==
    /\ [][SendFileReturn =>
            /\ Succ32(call.frame_counter, frame_counter')
            /\ (call.frame_counter = MaxId => frame_counter' = U32(0))]_vars
    /\ [](frame_counter[1] \in 0..(Half - 1) /\ frame_counter[2] \in 0..(Half - 1))

\* C7 witness: send_file has returned 0 for the frame it sent with id 2^32 - 1.
C7_Witness ==
    /\ sent_log # <<>>
    /\ sent_log[Len(sent_log)].frame_counter = MaxId
    /\ wire # <<>>
    /\ call = NoCall
    /\ frame_counter = U32(0)

\* C8: a send_file call that cannot read its source emits nothing and returns
\* the id it was given, and monitor_folder_and_send goes on with the next
\* file; so the ids of the frames put on the wire are 0, 1, 2, ... with no gap.
C8_ReadFailure ==
    /\ [][(SendFileRead /\ ~folder[call.filepath].readable) =>
            /\ wire' = wire
            /\ frame_counter' = call.frame_counter
            /\ pc' = "scan"]_vars
    /\ [](\A k \in 1..Len(WireIds(Len(wire))) : WireIds(Len(wire))[k] = U32(k - 1))

\* C9: send_file returns an id different from the one it was given only if it
\* has emitted at least one datagram carrying the id it was given.
C9_NoIdWithoutDatagram ==
    [][(SendFileReturns /\ frame_counter' # call.frame_counter) =>
         \E i \in 1..Len(Emitted) :
             /\ ~TooSmall(Emitted[i])
             /\ Parse(Emitted[i]).frame_counter = call.frame_counter]_vars

\* C10 as stated: for data of any length L and any chunkSize C, send_file
\* emits exactly ceil(L / C) datagrams, in index order, each with the 8-byte
\* big-endian header and its slice of the data, each passing the receiver's
\* header validation; and the worked example comes out as given.
C10_Fragmentation ==
    [][SendFileEnds => Fragmented /\ (ExampleCall => ExampleEmitted)]_vars

\* C10 amended: the same, for data that needs at most 65535 chunks.
C10_FragmentationFits ==
    [][(SendFileEnds /\ folder[call.filepath].size <= (Half - 1) * chunk_size) =>
         Fragmented /\ (ExampleCall => ExampleEmitted)]_vars

\* C10 witness: the three datagrams of the worked example are on the wire.
C10_Witness ==
    /\ Len(folder) = 1
    /\ folder[1].size = 20000
    /\ chunk_size = 8000
    /\ Len(wire) = 3
    /\ Len(wire[1]) = 8008 /\ Len(wire[2]) = 8008 /\ Len(wire[3]) = 4008
    /\ SubSeq(wire[2], 1, 8) = <<0, 0, 0, 7, 0, 3, 0, 1>>
    /\ frame_counter = U32(8)

\* The data of the running send_file call needs more than 65535 chunks.
Oversize == folder[call.filepath].size > (Half - 1) * chunk_size

\* C11: when the data needs more than 65535 chunks, send_file ends without
\* having emitted any datagram for it, and monitor_folder_and_send is not
\* stopped by it: its loop is still running and goes on to the next file.
C11_OversizeRejection ==
    /\ [][(SendFileEnds /\ Oversize) => (Emitted = <<>> /\ pc' = "scan")]_vars
    /\ [](pc # "dead")

\* The number of slots of a PartialFrame that hold a payload.
FilledCount(info) ==
    Cardinality({i \in 1..Len(info.chunks) : info.chunks[i] # None})

\* C12: in every state of the reassembly table, for every entry,
\* receivedCount is the number of filled slots and is at most TotalChunks.
C12_PartialFrameInvariant ==
    \A fc \in DOMAIN reassembly_dict :
        /\ reassembly_dict[fc].received_count = FilledCount(reassembly_dict[fc])
        /\ reassembly_dict[fc].received_count <= reassembly_dict[fc].total_chunks

\* C12 witness: after a sweep has evicted a frame, a header conflict has reset
\* a PartialFrame to MaxTotalWide slots, of which the one filled holds an
\* empty payload.
C12_Witness ==
    \E fc \in DOMAIN reassembly_dict :
        /\ event = "mismatch"
        /\ discarded # {}
        /\ reassembly_dict[fc].total_chunks = MaxTotalWide
        /\ reassembly_dict[fc].received_count = 1
        /\ \E i \in 1..MaxTotalWide : reassembly_dict[fc].chunks[i] = <<>>

\* Datagram d is accepted and its TotalChunks disagrees with the PartialFrame
\* that the table holds for its FrameID.
Conflict(d) ==
    /\ Accepted(d)
    /\ Parse(d).frame_counter \in DOMAIN reassembly_dict
    /\ reassembly_dict[Parse(d).frame_counter].total_chunks # Parse(d).total_chunks

\* A PartialFrame of n slots, created or reset at time t, holding payload p at
\* index idx and nothing else.
FreshFrame(n, idx, p, t) ==
    [total_chunks   |-> n,
     chunks         |-> [i \in 1..n |-> IF i = idx + 1 THEN p ELSE None],
     received_count |-> 1,
     last_update    |-> t]

\* C13: a valid chunk whose TotalChunks differs from that of the PartialFrame
\* of its FrameID discards all stored slots, adopts the new TotalChunks and is
\* stored as the only chunk (receivedCount 1, lastUpdate refreshed), the frame
\* being handed off at once when the new TotalChunks is 1.  After any call a
\* filled slot is the one the datagram addressed or was stored under the same
\* TotalChunks; every stored slot was received under the TotalChunks its
\* PartialFrame has now; and a completed frame joins the payload that
\* completes it with slots stored under that same TotalChunks.
C13_NewestHeaderWins ==
    /\ \A d \in WideDatagrams :
          Conflict(d) =>
             IF Parse(d).total_chunks = 1
             THEN /\ Created(d) = <<[frame_counter |-> Parse(d).frame_counter,
                                     data |-> Parse(d).chunk_data]>>
                  /\ Parse(d).frame_counter \notin DOMAIN After(d)
             ELSE /\ Created(d) = <<>>
                  /\ Parse(d).frame_counter \in DOMAIN After(d)
                  /\ After(d)[Parse(d).frame_counter] =
                        FreshFrame(Parse(d).total_chunks, Parse(d).chunk_idx,
                                   Parse(d).chunk_data, now)
    /\ \A d \in WideDatagrams :
          (Accepted(d) /\ Parse(d).frame_counter \in DOMAIN After(d)) =>
             /\ After(d)[Parse(d).frame_counter].total_chunks = Parse(d).total_chunks
             /\ \A i \in 1..Parse(d).total_chunks :
                   After(d)[Parse(d).frame_counter].chunks[i] # None =>
                      \/ i = Parse(d).chunk_idx + 1
                      \/ /\ ~Conflict(d)
                         /\ Parse(d).frame_counter \in DOMAIN reassembly_dict
                         /\ reassembly_dict[Parse(d).frame_counter].chunks[i]
                              = After(d)[Parse(d).frame_counter].chunks[i]
    /\ \A fc \in DOMAIN reassembly_dict :
          \A i \in 1..reassembly_dict[fc].total_chunks :
             reassembly_dict[fc].chunks[i] # None =>
                <<fc, reassembly_dict[fc].total_chunks, i - 1>> \in seen
    /\ \A d \in WideDatagrams :
          (Accepted(d) /\ Created(d) # <<>>) =>
             /\ ~Conflict(d) \/ Parse(d).total_chunks = 1
             /\ Created(d)[1].data =
                   Completed(Parse(d).frame_counter, Parse(d).total_chunks,
                             Parse(d).chunk_idx, Parse(d).chunk_data)

\* C13 witness: a header conflict has just reset a PartialFrame that was
\* never evicted or completed: a chunk stored under the old TotalChunks is
\* gone and only the incoming chunk is stored.
C13_Witness ==
    \E fc \in DOMAIN reassembly_dict :
        /\ event = "mismatch"
        /\ discarded = {}
        /\ Handed(fc) = 0
        /\ reassembly_dict[fc].received_count = 1
        /\ reassembly_dict[fc].last_update = now
        /\ now > 0
        /\ \E h \in seen :
              /\ h[1] = fc
              /\ h[2] # reassembly_dict[fc].total_chunks
              /\ h[3] < reassembly_dict[fc].total_chunks
              /\ reassembly_dict[fc].chunks[h[3] + 1] = None

\* Datagram d is accepted and addresses a slot that its PartialFrame, of the
\* same TotalChunks, has already filled.
Duplicate(d) ==
    /\ Accepted(d)
    /\ Parse(d).frame_counter \in DOMAIN reassembly_dict
    /\ reassembly_dict[Parse(d).frame_counter].total_chunks = Parse(d).total_chunks
    /\ reassembly_dict[Parse(d).frame_counter].chunks[Parse(d).chunk_idx + 1] # None

\* C14: a chunk whose slot is already filled leaves the stored payloads,
\* receivedCount and lastUpdate of its PartialFrame as they were, with no
\* hand-off, so a PartialFrame that is stale stays stale when a duplicate
\* arrives; the next sweep tick removes it, and under fairness of the sweep
\* and of the clock it does not stay in the table stale for ever.
C14_DuplicatesDoNotRefresh ==
    /\ [](\A d \in Datagrams :
            Duplicate(d) =>
               /\ After(d) = reassembly_dict
               /\ Created(d) = <<>>
               /\ (Stale(Parse(d).frame_counter)
                     => Parse(d).frame_counter \in Scan(After(d), now)))
    /\ [][CleanupTick =>
            \A fc \in DOMAIN reassembly_dict :
               now - reassembly_dict[fc].last_update > FrameTimeout
               => (fc \notin DOMAIN reassembly_dict' /\ fc \in discarded')]_vars
    /\ \A fc \in RecvIds : [](Stale(fc) => <>(~Stale(fc)))

\* C14 witness: a duplicate has just arrived for a PartialFrame that holds
\* one chunk, the only one ever received for its id, and that has been idle
\* for longer than frameTimeout: it is still stale.
C14_Witness ==
    \E fc \in DOMAIN reassembly_dict :
        /\ event = "duplicate"
        /\ Stale(fc)
        /\ Cardinality({h \in seen : h[1] = fc}) = 1
        /\ reassembly_dict[fc].received_count = 1

\* The PartialFrame of fc has been removed before, by completion or eviction,
\* and the table holds none for fc now.
Removed(fc) ==
    /\ fc \notin DOMAIN reassembly_dict
    /\ (fc \in discarded \/ Handed(fc) > 0)

\* C15: a removal, by completion or by eviction, takes the whole entry out of
\* the table; a valid chunk for a FrameID whose PartialFrame was removed
\* starts a PartialFrame that holds that chunk alone (receivedCount 1,
\* lastUpdate the arrival time), which is handed off at once when TotalChunks
\* is 1; and a frame completed under an id builds its bytes from the slots of
\* the PartialFrame then in the table and the completing payload, nothing else.
C15_NoResurrection ==
    /\ [](\A d \in Datagrams :
            (Accepted(d) /\ Removed(Parse(d).frame_counter)) =>
               IF Parse(d).total_chunks = 1
               THEN /\ Created(d) = <<[frame_counter |-> Parse(d).frame_counter,
                                       data |-> Parse(d).chunk_data]>>
                    /\ Parse(d).frame_counter \notin DOMAIN After(d)
               ELSE /\ Created(d) = <<>>
                    /\ After(d)[Parse(d).frame_counter] =
                          FreshFrame(Parse(d).total_chunks, Parse(d).chunk_idx,
                                     Parse(d).chunk_data, now))
    /\ [](\A d \in Datagrams :
            (Accepted(d) /\ Created(d) # <<>>) =>
               /\ Parse(d).frame_counter \notin DOMAIN After(d)
               /\ Len(Created(d)) = 1
               /\ Created(d)[1].data =
                     Completed(Parse(d).frame_counter, Parse(d).total_chunks,
                               Parse(d).chunk_idx, Parse(d).chunk_data))
    /\ [][\A fc \in RecvIds :
            (fc \in discarded' \ discarded \/ Handed(fc)' > Handed(fc))
            => fc \notin DOMAIN reassembly_dict']_vars
    /\ [](\A fc \in DOMAIN reassembly_dict :
            \A i \in 1..reassembly_dict[fc].total_chunks :
               reassembly_dict[fc].chunks[i] # None =>
                  <<fc, reassembly_dict[fc].total_chunks, i - 1>> \in seen)

\* C15 witness: a frame id whose PartialFrame was evicted, and whose frame
\* was never completed, has a new PartialFrame holding one chunk, stored
\* after the eviction.
C15_Witness ==
    \E fc \in DOMAIN reassembly_dict :
        /\ fc \in discarded
        /\ Handed(fc) = 0
        /\ event = "created"
        /\ reassembly_dict[fc].received_count = 1
        /\ reassembly_dict[fc].last_update = now
        /\ now = MaxTime

\* C16: one sweep tick removes exactly the entries with
\* now - lastUpdate > frameTimeout, as they were when the tick began (an entry
\* idle for exactly frameTimeout is kept), leaves every other entry as it
\* was, and hands no frame to save_frame.
C16_SweepEffect ==
    [][CleanupTick =>
         /\ DOMAIN reassembly_dict' =
               {fc \in DOMAIN reassembly_dict :
                   ~(now - reassembly_dict[fc].last_update > FrameTimeout)}
         /\ \A fc \in DOMAIN reassembly_dict :
               now - reassembly_dict[fc].last_update = FrameTimeout
               => fc \in DOMAIN reassembly_dict'
         /\ \A fc \in DOMAIN reassembly_dict' :
               reassembly_dict'[fc] = reassembly_dict[fc]
         /\ discarded' \ discarded \subseteq
               DOMAIN reassembly_dict \ DOMAIN reassembly_dict'
         /\ handed' = handed
         /\ save_tasks' = save_tasks
         /\ saved_files' = saved_files
         /\ cleanup_alive']_vars

\* C16 witness: a sweep tick has just evicted one PartialFrame and kept
\* another that had been idle for exactly frameTimeout.
C16_Witness ==
    /\ event = "sweep"
    /\ discarded # {}
    /\ discarded \cap DOMAIN reassembly_dict = {}
    /\ \E fc \in DOMAIN reassembly_dict :
          now - reassembly_dict[fc].last_update = FrameTimeout

\* The number of save_frame tasks created so far, over all frame ids.
HandedTotal == Handed(U32(0)) + Handed(MaxId)

\* C17: the call that schedules save_frame for a frame has removed the
\* frame's entry when it returns, while the save is still pending; a pending
\* save does not keep datagram_received from being called and from
\* processing the datagram as it would otherwise; and a save_frame run,
\* whether the write succeeds or fails, takes its task off the pending ones
\* and changes nothing else of the receiver: not the table, not the hand-off
\* counts, and it schedules no further save.
C17_SinkDecoupling ==
    /\ [][Len(save_tasks') > Len(save_tasks) =>
            /\ Len(save_tasks') = Len(save_tasks) + 1
            /\ SubSeq(save_tasks', 1, Len(save_tasks)) = save_tasks
            /\ saved_files' = saved_files
            /\ save_tasks'[Len(save_tasks')].frame_counter
                  \notin DOMAIN reassembly_dict']_vars
    /\ []((save_tasks # <<>> /\ ndatagrams < MaxDatagrams) => ENABLED Receive)
    /\ [](\A d \in Datagrams :
            (/\ save_tasks # <<>>
             /\ Accepted(d)
             /\ Parse(d).frame_counter \notin DOMAIN reassembly_dict
             /\ Parse(d).total_chunks > 1)
            => /\ Parse(d).frame_counter \in DOMAIN After(d)
               /\ After(d)[Parse(d).frame_counter].received_count = 1)
    /\ [][Save =>
            /\ save_tasks # <<>>
            /\ save_tasks' = SubSeq(save_tasks, 2, Len(save_tasks))
            /\ saved_files' \in {saved_files, saved_files \cup {save_tasks[1]}}
            /\ reassembly_dict' = reassembly_dict
            /\ handed' = handed
            /\ seen' = seen
            /\ discarded' = discarded
            /\ ndatagrams' = ndatagrams]_vars

\* C17 witness: a save has failed (its task is gone and nothing was saved),
\* a second completed frame is waiting to be saved, its entry is out of the
\* table, and a datagram received since then has created a PartialFrame.
C17_Witness ==
    /\ HandedTotal = 2
    /\ saved_files = {}
    /\ Len(save_tasks) = 1
    /\ save_tasks[1].frame_counter \notin DOMAIN reassembly_dict
    /\ event = "created"
    /\ reassembly_dict # <<>>

\* C18: when no operation is running, every entry of the reassembly table
\* has exactly TotalChunks slots, TotalChunks >= 1, and at least one but not
\* all of its slots filled: 1 <= receivedCount < TotalChunks.
C18_StrictlyPartial ==
    \A fc \in DOMAIN reassembly_dict :
        /\ DOMAIN reassembly_dict[fc].chunks = 1..reassembly_dict[fc].total_chunks
        /\ reassembly_dict[fc].total_chunks >= 1
        /\ 1 <= reassembly_dict[fc].received_count
        /\ reassembly_dict[fc].received_count < reassembly_dict[fc].total_chunks
        /\ \E i \in 1..reassembly_dict[fc].total_chunks :
              reassembly_dict[fc].chunks[i] = None
        /\ \E i \in 1..reassembly_dict[fc].total_chunks :
              reassembly_dict[fc].chunks[i] # None

\* C18 witness: a PartialFrame of MaxTotalWide slots lacks one chunk only.
C18_Witness ==
    \E fc \in DOMAIN reassembly_dict :
        /\ event = "stored"
        /\ reassembly_dict[fc].total_chunks = MaxTotalWide
        /\ reassembly_dict[fc].received_count = MaxTotalWide - 1

\* C19: a datagram_received call for FrameID X, whatever it does to X,
\* leaves the PartialFrame of every other FrameID as it was, neither adds nor
\* removes an entry of another id, and hands off no frame of another id.
C19_PerIdIsolation ==
    \A d \in Datagrams :
        ~TooSmall(d) =>
           /\ DOMAIN After(d) \ {Parse(d).frame_counter}
                 = DOMAIN reassembly_dict \ {Parse(d).frame_counter}
           /\ \A y \in DOMAIN reassembly_dict \ {Parse(d).frame_counter} :
                 After(d)[y] = reassembly_dict[y]
           /\ \A k \in 1..Len(Created(d)) :
                 Created(d)[k].frame_counter = Parse(d).frame_counter
           /\ \A y \in RecvIds \ {Parse(d).frame_counter} :
                 (IF y \in DOMAIN CountTasks(handed, Created(d))
                  THEN CountTasks(handed, Created(d))[y] ELSE 0) = Handed(y)

\* C19 witness: a frame has just been completed and handed off while the
\* PartialFrame of the other frame id, never handed off, is in the table.
C19_Witness ==
    \E x \in RecvIds, y \in RecvIds :
        /\ x # y
        /\ event = "complete"
        /\ x \notin DOMAIN reassembly_dict
        /\ Handed(x) = 1
        /\ y \in DOMAIN reassembly_dict
        /\ Handed(y) = 0
        /\ save_tasks # <<>>
        /\ save_tasks[Len(save_tasks)].frame_counter = x

\* The frame id carried by the i-th datagram sent.
WireId(i) == U32FromBytes(SubSeq(wire[i], 1, 4))

\* C20: monitor_folder_and_send starts a send_file call only when none is
\* running and each datagram sent carries the id of the running call, so the
\* datagrams of one frame id are contiguous on the wire; and since sent_files
\* was last cleared no path has been passed to send_file twice, a path whose
\* read failed included.
C20_SenderSerialization ==
    /\ [](\A i \in 1..Len(wire), j \in 1..Len(wire), k \in 1..Len(wire) :
            (i < j /\ j < k /\ WireId(i) = WireId(k)) => WireId(j) = WireId(i))
    /\ [](\A i \in 1..Len(passed), j \in 1..Len(passed) :
            passed[i] = passed[j] => i = j)
    /\ [][MonitorCall => (call = NoCall /\ pc' = "read")]_vars
    /\ [][Len(wire') > Len(wire) =>
            /\ Len(wire') = Len(wire) + 1
            /\ SubSeq(wire', 1, Len(wire)) = wire
            /\ pc = "chunks"
            /\ U32FromBytes(SubSeq(wire'[Len(wire')], 1, 4)) = call.frame_counter
            /\ call'.filepath = call.filepath]_vars

\* C20 witness: in a later pass over the folder, within the same cache
\* period, the first path has been passed over and the second is about to
\* be; the wire holds the two frames sent in the first pass, each of more
\* than one datagram, one after the other.
C20_Witness ==
    /\ pc = "scan"
    /\ ply_files = <<2>>
    /\ sent_files = {1, 2}
    /\ passed = <<1, 2>>
    /\ Len(wire) >= 4
    /\ WireId(1) = U32(0)
    /\ WireId(2) = U32(0)
    /\ WireId(Len(wire) - 1) = U32(1)
    /\ WireId(Len(wire)) = U32(1)

====
